---- MODULE Spec2Model ----
(***************************************************************************)
(* Variational Monte Carlo engine of vmc-project.                          *)
(*                                                                         *)
(* Three state machines share this module:                                 *)
(*   Spec      one VMC run, VMCLocEnAndPoss_ with the two update           *)
(*             algorithms MetropolisUpdate_ / ImportanceSamplingUpdate_    *)
(*   SpecOpt   the multi-start optimizer VMCRBestParams_ and the gradient  *)
(*             descents of its walkers                                     *)
(*   SpecStat  BlockingAnalysis and BootstrapAnalysis                      *)
(*                                                                         *)
(* Reals are fixed point integers.  A draw from the random generator is a  *)
(* choice from a small set.  assert() is a fatal failure (the build with   *)
(* assertions enabled).                                                    *)
(***************************************************************************)
EXTENDS Integers, Sequences, FiniteSets, TLC

\* ------------------------------------------------------------------ bounds
\* template parameters: particles, dimensions
N == 2
D == 1
\* the integration region is [-XMax, XMax] in every dimension
XMax == 2
\* largest requested number of energies
MaxEnergies == 2
\* sweeps of the burn-in and between two samples (scaled down)
movesForgetICs_vmcLEPs == 1
autocorrelationMoves_vmcLEPs == 2
\* the first step is the shortest side of the region over this
stepDenom_vmcLEPs == 1

\* template parameter: variational parameters
V == 1
\* the iteration cap of a gradient descent (scaled down)
maxLoops_gradDesc == 2
\* the number of walkers generate_n launches (scaled down)
numWalkers_gradDesc == 2
\* the first reweighting step is the norm of the initial parameters over this
stepDenom_gradDesc == 1
\* a descent stops when |momentum| / |parameters| is below this (scaled)
stoppingThreshold_gradDesc == 10
\* halvings of the multiplier followed before the loop is declared stuck
MaxHalvings == 12
\* largest component of a momentum the halving loop is tried on
MaxMomentum == 200
\* longest energy sequence handed to BlockingAnalysis / BootstrapAnalysis
MaxBlockingLen == 12
MaxBootstrapLen == 2
\* largest number of bootstrap resamples
MaxResamples == 2
\* largest length of the energies whose sums are rounded
MaxRoundedLen == 3
\* longest part of the energies handed to BlockingAnalysis that takes every value
MaxVariedLen == 9
\* significant bits of FPType
MantissaBits == 3
\* largest numPoints handed to FindPeak_
MaxPoints == 2
\* the floor of the wavefunction in the peak search (scaled)
minWavef_peakSearch == 0

Particles == 1 .. N
Dims == 1 .. D

Abs(x) == IF x < 0 THEN -x ELSE x

\* a rational number num/den, den > 0
Rat(n, d) == [num |-> n, den |-> d]
RatLess(a, b) == a.num * b.den < b.num * a.den

\* floating point "not a number"
NaN == "nan"

\* ------------------------------------------------------------------ state
VARIABLES
    \* --- VMCLocEnAndPoss_
    numEnergies,       \* argument
    useAnalytical,     \* argument
    useImpSamp,        \* argument
    poss,              \* the configuration, mutated in place by the updates
    step,              \* Metropolis step, a rational
    result,            \* std::vector<LocEnAndPoss>
    pc,                \* position in VMCLocEnAndPoss_
    i,                 \* outer loop counter (burn-in, then sampling)
    j,                 \* decorrelation loop counter
    succesfulUpdates,  \* tally of the decorrelation sweeps of one sample
    \* --- one sweep of MetropolisUpdate_ / ImportanceSamplingUpdate_
    upc,               \* "idle" | "propose" | "decide"
    n,                 \* particle of the sweep
    oldPos,            \* saved position of particle n
    oldPsi,            \* wavef before the proposal
    count,             \* the sweep's local succesfulUpdates
    \* --- history of the run (not program state)
    preProposal,       \* configuration before the last proposal
    lastOutcome,       \* "none" | "proposed" | "accepted" | "rejected"
    sweeps,            \* sweeps applied so far
    attempted,         \* the particles a move was proposed for in the sweep, in order
    passed             \* the particles whose proposal passed the acceptance test in the sweep

vmcVars == << numEnergies, useAnalytical, useImpSamp, poss, step, result, pc, i, j,
              succesfulUpdates, upc, n, oldPos, oldPsi, count,
              preProposal, lastOutcome, sweeps, attempted, passed >>

VARIABLES
    \* --- VMCEnergy / VMCRBestParams_ (multi-start)
    varParNum,         \* template argument V of the call: 0, or V
    numWalkers,        \* argument of VMCRBestParams_
    parBounds,         \* argument: one Bound per variational parameter
    opc,               \* position of the caller and of the multi-start
    m,                 \* std::mutex m: 0 when free, else the walker that holds it
    genUsers,          \* walkers inside a call on the shared RandomGenerator gen
    vmcResults,        \* std::vector<VMCResult<V>>, one slot per requested walker
    returned,          \* the VMCResult returned by the multi-start
    \* --- per walker: the lambda of generate_n and its gradient descent
    wpc,               \* position of the walker
    loop,              \* loop counter i of the descent
    currentParams,
    oldMomentum,
    gradStep,
    guarded,           \* history: every shared-generator call so far held the mutex
    descents,          \* history: results of the descents that returned
    runs,              \* history: calls of lepsCalc (VMC runs) started so far
    analyses,          \* history: calls of ErrorOnAvg made so far
    currentLEPs,       \* per walker: the samples of its latest VMC run
    ranAt,             \* history, per walker: the parameters its latest run was started at
    runsOf             \* history, per walker: the VMC runs its descent has started

optVars == << varParNum, numWalkers, parBounds, opc, m, genUsers, vmcResults, returned,
              wpc, loop, currentParams, oldMomentum, gradStep, guarded, descents,
              runs, analyses, currentLEPs, ranAt, runsOf >>

VARIABLES
    \* --- BlockingAnalysis / BootstrapAnalysis
    energies,          \* argument: the energies
    numSamples,        \* argument of BootstrapAnalysis
    spc,               \* position in the analysis
    blockSize,         \* loop variable of BlockingAnalysis
    blockingResult,    \* sizes, means, stdDevs
    blockRanges,       \* history: per tested block size, the index ranges of its blocks
    rep,               \* bootstrap repetition
    accBlocksMeans,    \* the accumulator handed to GenerateBootstrapSample for the means
    accBlocksVars,     \* the accumulator handed to GenerateBootstrapSample for the variances
    bootstrapMeans,
    bootstrapVars,
    drawn,             \* history: the values drawn in each repetition for the means
    bootstrapResult,
    \* --- the caller: the same analysis called twice on the same arguments
    call,              \* 1 in the first call, 2 in the repeated one
    firstResult,       \* the result the first call returned
    drawLog,           \* the draws of the generator from the seeded state of the first call
    given,             \* history: the energies as the caller built them
    avgAndVar          \* the VMCResult returned by AvgAndVar_

statVars == << energies, numSamples, spc, blockSize, blockingResult, blockRanges, rep,
               accBlocksMeans, accBlocksVars, bootstrapMeans, bootstrapVars, drawn,
               bootstrapResult, call, firstResult, drawLog, given, avgAndVar >>

VARIABLES
    \* --- FindPeak_
    peakBounds,        \* argument: the region of the search
    numPoints,         \* argument
    fpc,               \* position in FindPeak_
    peakResult,        \* the local result, shared by the tasks of for_each
    peakMutex,         \* std::mutex m of FindPeak_: 0 when free, else the task that holds it
    peakGenUsers,      \* tasks inside a call on the RandomGenerator gen
    tpc,               \* per task: "idle" | "drawing" | "drawn" | "locked" | "replacing" | "finished"
    newPoss            \* per task: its candidate

peakVars == << peakBounds, numPoints, fpc, peakResult, peakMutex, peakGenUsers, tpc, newPoss >>

vars == << vmcVars, optVars, statVars, peakVars >>

\* ------------------------------------------------------------------ callables
\* One-particle factor of the trial wavefunction: positive on |x| <= 1 only.
Phi(x) == IF x = 0 THEN 2 ELSE IF Abs(x) = 1 THEN 1 ELSE 0

RECURSIVE ProdDims(_, _)
ProdDims(p, d) == IF d = 0 THEN 1 ELSE Phi(p[d]) * ProdDims(p, d - 1)

RECURSIVE ProdParticles(_, _)
ProdParticles(ps, k) == IF k = 0 THEN 1 ELSE ProdDims(ps[k], D) * ProdParticles(ps, k - 1)

\* the wavefunction, a product over the particles
wavef(ps) == ProdParticles(ps, N)

RECURSIVE SumSqDims(_, _)
SumSqDims(p, d) == IF d = 0 THEN 0 ELSE p[d] * p[d] + SumSqDims(p, d - 1)

RECURSIVE SumSqParticles(_, _)
SumSqParticles(ps, k) == IF k = 0 THEN 0 ELSE SumSqDims(ps[k], D) + SumSqParticles(ps, k - 1)

\* the potential, harmonic
pot(ps) == SumSqParticles(ps, N)

\* MoveBy_: particle k moved by delta in direction d
MoveBy_(ps, d, k, delta) == [ps EXCEPT ![k][d] = @ + delta]

\* second difference of wavef in direction d of particle k, derivativeStep = 1
SecondDiff(ps, d, k) == wavef(MoveBy_(ps, d, k, 1)) - 2 * wavef(ps) + wavef(MoveBy_(ps, d, k, -1))

RECURSIVE SumSecondDiff(_, _)
SumSecondDiff(ps, q) ==
    IF q = 0 THEN 0
    ELSE SecondDiff(ps, ((q - 1) % D) + 1, ((q - 1) \div D) + 1) + SumSecondDiff(ps, q - 1)

\* LocalEnergyNumeric_ with hbar^2 / (2 m) = 1 and derivativeStep = 1
LocalEnergyNumeric_(ps) == pot(ps) - SumSecondDiff(ps, N * D)

\* truncating division of the fixed point values
TruncDiv(a, b) == IF (a < 0) # (b < 0) THEN -(Abs(a) \div Abs(b)) ELSE Abs(a) \div Abs(b)

\* LocalEnergyAnalytic_: the laplacians are divided by the wavefunction
LocalEnergyAnalytic_(ps) ==
    IF wavef(ps) = 0 THEN NaN ELSE pot(ps) - TruncDiv(SumSecondDiff(ps, N * D), wavef(ps))

localEnergy(ps, analytic) == IF analytic THEN LocalEnergyAnalytic_(ps) ELSE LocalEnergyNumeric_(ps)

\* ------------------------------------------------------------------ VMC run
\* the integration region: CoordBounds<D>
coordBounds == [d \in Dims |-> [lower |-> -XMax, upper |-> XMax]]

\* Bound::Length
Length(b) == b.upper - b.lower

\* std::min_element over the lengths of the bounds
SmallestLength == CHOOSE l \in {Length(coordBounds[d]) : d \in Dims} :
                      \A d \in Dims : l <= Length(coordBounds[d])

\* step = smallestBound.Length() / stepDenom_vmcLEPs
InitialStep == Rat(SmallestLength, stepDenom_vmcLEPs)

targetAcceptRate_vmcLEPs == Rat(1, 2)

\* step *= (currentAcceptRate > target ? 11/10 : 9/10), the rate being
\* succesfulUpdates / (autocorrelationMoves_vmcLEPs * N)
AdaptStepGrowsAtTarget(st, succ) ==
    IF ~RatLess(Rat(succ, autocorrelationMoves_vmcLEPs * N), targetAcceptRate_vmcLEPs)
    THEN Rat(st.num * 11, st.den * 10)
    ELSE Rat(st.num * 9, st.den * 10)
AdaptStep(st, succ) ==
    IF RatLess(targetAcceptRate_vmcLEPs, Rat(succ, autocorrelationMoves_vmcLEPs * N))
    THEN Rat(st.num * 11, st.den * 10)
    ELSE Rat(st.num * 9, st.den * 10)

\* values of unif(gen), a uniform deviate of [0, 1)
USamples == {Rat(0, 1), Rat(1, 2)}

\* (unif(gen) - 0.5) * step on the grid: the offsets of [-step/2, step/2)
MetropolisOffsets(st) ==
    {o \in -(st.num \div st.den) .. (st.num \div st.den) :
        -st.num <= 2 * o * st.den /\ 2 * o * st.den < st.num}

\* unif(gen) < pow(wavef(poss) / oldPsi, 2); x/0 is inf for x > 0 and NaN for 0/0
MetropolisAccepts(u, newPsi, old) ==
    IF old = 0 THEN newPsi # 0
    ELSE u.num * old * old < newPsi * newPsi * u.den

\* p = oldPos in MetropolisUpdate_ (a rejected move)
MetropolisRollbackSkipped(ps, k, old) == ps
MetropolisRollback(ps, k, old) == [ps EXCEPT ![k] = old]

\* p = oldPos in ImportanceSamplingUpdate_ (a rejected move)
ImportanceSamplingRollback(ps, k, old) == [ps EXCEPT ![k] = old]

\* a coordinate that is not finite (the drift force 2 grad / wavef where wavef is 0)
NonFinite == 100 * (XMax + 1)

\* oldPos + diffConst * deltaT * (drift + normal(gen)) on the grid: any displacement
ImportanceSamplingOffsets == -1 .. 1

\* backwardProb / forwardProb, the ratio of the two Green's functions: some positive number
GreenRatios == {Rat(1, 2), Rat(2, 1)}

\* unif(gen) < (newPsi^2 backwardProb) / (oldPsi^2 forwardProb); from oldPsi = 0 the
\* proposal is not finite and the ratio is NaN
ImportanceSamplingAccepts(u, g, newPsi, old) ==
    IF old = 0 THEN FALSE
    ELSE u.num * old * old * g.den < newPsi * newPsi * g.num * u.den

Configurations == [Particles -> [Dims -> -XMax .. XMax]]

VMCIdle ==
    /\ numEnergies = 0 /\ useAnalytical = FALSE /\ useImpSamp = FALSE
    /\ poss = [k \in Particles |-> [d \in Dims |-> 0]]
    /\ step = InitialStep /\ result = << >> /\ pc = "unused"
    /\ i = 0 /\ j = 0 /\ succesfulUpdates = 0
    /\ upc = "idle" /\ n = 0 /\ oldPos = [d \in Dims |-> 0] /\ oldPsi = 0 /\ count = 0
    /\ preProposal = [k \in Particles |-> [d \in Dims |-> 0]]
    /\ lastOutcome = "none" /\ sweeps = 0
    /\ attempted = << >> /\ passed = {}

\* a call of VMCLocEnAndPoss_ with its arguments
VMCInit ==
    /\ numEnergies \in -1 .. MaxEnergies
    /\ useAnalytical \in BOOLEAN
    /\ useImpSamp \in BOOLEAN
    /\ poss \in Configurations
    /\ step = InitialStep /\ result = << >> /\ pc = "start"
    /\ i = 0 /\ j = 0 /\ succesfulUpdates = 0
    /\ upc = "idle" /\ n = 0 /\ oldPos = [d \in Dims |-> 0] /\ oldPsi = 0 /\ count = 0
    /\ preProposal = poss
    /\ lastOutcome = "none" /\ sweeps = 0
    /\ attempted = << >> /\ passed = {}

sweepVars == << upc, n, oldPos, oldPsi, count >>
argVars == << numEnergies, useAnalytical, useImpSamp >>
histVars == << preProposal, lastOutcome, attempted, passed >>

\* the loop over the particles goes on to the next one
SkipParticle(k) == k + 2
NextParticle(k) == k + 1

\* assert(numEnergies > 0)
PositiveCountAssertOff(k) == TRUE
PositiveCountAssert(k) == k > 0

\* assert(numEnergies > 0), then the choice of the initial step
Enter ==
    /\ pc = "start"
    /\ IF PositiveCountAssert(numEnergies)
       THEN pc' = "burnin" /\ step' = InitialStep
       ELSE pc' = "aborted" /\ UNCHANGED step
    /\ UNCHANGED << optVars, statVars, peakVars, argVars, poss, result, i, j, succesfulUpdates, sweepVars, histVars, sweeps >>

\* the end of the loop between two samples: j != autocorrelationMoves_vmcLEPs fails
DecorrelationCutShort(k) == k >= 1
DecorrelationOver(k) == k = autocorrelationMoves_vmcLEPs

\* update() is entered: the sweep starts at the first particle
BeginSweep ==
    /\ upc = "idle"
    /\ \/ pc = "burnin" /\ i # movesForgetICs_vmcLEPs
       \/ pc = "decorr" /\ ~DecorrelationOver(j)
    /\ upc' = "propose" /\ n' = 1 /\ count' = 0
    /\ attempted' = << >> /\ passed' = {}
    /\ UNCHANGED << optVars, statVars, peakVars, argVars, poss, step, result, pc, i, j,
                    succesfulUpdates, oldPos, oldPsi, preProposal, lastOutcome, sweeps >>

\* MetropolisUpdate_: the proposal for particle n, written into poss
MetropolisPropose ==
    /\ upc = "propose" /\ ~useImpSamp /\ n <= N
    /\ \E off \in [Dims -> MetropolisOffsets(step)] :
          poss' = [poss EXCEPT ![n] = [d \in Dims |-> poss[n][d] + off[d]]]
    /\ oldPos' = poss[n] /\ oldPsi' = wavef(poss)
    /\ preProposal' = poss /\ lastOutcome' = "proposed"
    /\ upc' = "decide" /\ attempted' = Append(attempted, n)
    /\ UNCHANGED << optVars, statVars, peakVars, argVars, step, result, pc, i, j,
                    succesfulUpdates, n, count, sweeps, passed >>

\* MetropolisUpdate_: the Metropolis question for particle n
MetropolisDecide ==
    /\ upc = "decide" /\ ~useImpSamp
    /\ \E u \in USamples :
          IF MetropolisAccepts(u, wavef(poss), oldPsi)
          THEN /\ count' = count + 1 /\ lastOutcome' = "accepted" /\ UNCHANGED poss
               /\ passed' = passed \cup {n}
          ELSE /\ poss' = MetropolisRollback(poss, n, oldPos)
               /\ lastOutcome' = "rejected" /\ UNCHANGED << count, passed >>
    /\ n' = NextParticle(n) /\ upc' = "propose"
    /\ UNCHANGED << optVars, statVars, peakVars, argVars, step, result, pc, i, j,
                    succesfulUpdates, oldPos, oldPsi, preProposal, sweeps, attempted >>

\* ImportanceSamplingUpdate_: the proposal for particle n, written into poss
ImportanceSamplingPropose ==
    /\ upc = "propose" /\ useImpSamp /\ n <= N
    /\ IF wavef(poss) = 0
       THEN poss' = [poss EXCEPT ![n] = [d \in Dims |-> NonFinite]]
       ELSE \E off \in [Dims -> ImportanceSamplingOffsets] :
               poss' = [poss EXCEPT ![n] = [d \in Dims |-> poss[n][d] + off[d]]]
    /\ oldPos' = poss[n] /\ oldPsi' = wavef(poss)
    /\ preProposal' = poss /\ lastOutcome' = "proposed"
    /\ upc' = "decide" /\ attempted' = Append(attempted, n)
    /\ UNCHANGED << optVars, statVars, peakVars, argVars, step, result, pc, i, j,
                    succesfulUpdates, n, count, sweeps, passed >>

\* ImportanceSamplingUpdate_: the acceptance test for particle n
ImportanceSamplingDecide ==
    /\ upc = "decide" /\ useImpSamp
    /\ \E u \in USamples, g \in GreenRatios :
          IF ImportanceSamplingAccepts(u, g, wavef(poss), oldPsi)
          THEN /\ count' = count + 1 /\ lastOutcome' = "accepted" /\ UNCHANGED poss
               /\ passed' = passed \cup {n}
          ELSE /\ poss' = ImportanceSamplingRollback(poss, n, oldPos)
               /\ lastOutcome' = "rejected" /\ UNCHANGED << count, passed >>
    /\ n' = NextParticle(n) /\ upc' = "propose"
    /\ UNCHANGED << optVars, statVars, peakVars, argVars, step, result, pc, i, j,
                    succesfulUpdates, oldPos, oldPsi, preProposal, sweeps, attempted >>

\* update() returns in the burn-in loop: the count is dropped
EndBurnInSweep ==
    /\ upc = "propose" /\ n = N + 1 /\ pc = "burnin"
    /\ i' = i + 1 /\ upc' = "idle" /\ sweeps' = sweeps + 1
    /\ UNCHANGED << optVars, statVars, peakVars, argVars, poss, step, result, pc, j, succesfulUpdates, n, oldPos, oldPsi,
                    count, histVars >>

\* update() returns in the decorrelation loop: succesfulUpdates += update()
EndDecorrSweep ==
    /\ upc = "propose" /\ n = N + 1 /\ pc = "decorr"
    /\ succesfulUpdates' = succesfulUpdates + count
    /\ j' = j + 1 /\ upc' = "idle" /\ sweeps' = sweeps + 1
    /\ UNCHANGED << optVars, statVars, peakVars, argVars, poss, step, result, pc, i, n, oldPos, oldPsi, count, histVars >>

\* the burn-in loop ends
EndBurnIn ==
    /\ pc = "burnin" /\ upc = "idle" /\ i = movesForgetICs_vmcLEPs
    /\ pc' = "sample" /\ i' = 0
    /\ UNCHANGED << optVars, statVars, peakVars, argVars, poss, step, result, j, succesfulUpdates, sweepVars, histVars, sweeps >>

\* one more iteration of the sampling loop
BeginSample ==
    /\ pc = "sample" /\ i # numEnergies
    /\ succesfulUpdates' = 0 /\ j' = 0 /\ pc' = "decorr"
    /\ UNCHANGED << optVars, statVars, peakVars, argVars, poss, step, result, i, sweepVars, histVars, sweeps >>

\* result.emplace_back(localEnergy(), poss)
EmplaceBackOverwrites(res, en, ps) ==
    IF res = << >> THEN << [localEn |-> en, positions |-> ps] >>
    ELSE [res EXCEPT ![Len(res)] = [localEn |-> en, positions |-> ps]]
EmplaceBack(res, en, ps) == Append(res, [localEn |-> en, positions |-> ps])

\* poss after result.emplace_back(localEnergy(), poss): it was copied into the sample
ResetAfterRecord(ps) == [k \in Particles |-> [d \in Dims |-> 0]]
KeptAfterRecord(ps) == ps

\* result.emplace_back(localEnergy(), poss), then the step is adjusted
Record ==
    /\ pc = "decorr" /\ upc = "idle" /\ DecorrelationOver(j)
    /\ result' = EmplaceBack(result, localEnergy(poss, useAnalytical), poss)
    /\ step' = AdaptStep(step, succesfulUpdates)
    /\ i' = i + 1 /\ pc' = "sample"
    /\ poss' = KeptAfterRecord(poss)
    /\ UNCHANGED << optVars, statVars, peakVars, argVars, j, succesfulUpdates, sweepVars, histVars, sweeps >>

\* return result
Return ==
    /\ pc = "sample" /\ i = numEnergies
    /\ pc' = "done"
    /\ UNCHANGED << optVars, statVars, peakVars, argVars, poss, step, result, i, j, succesfulUpdates, sweepVars, histVars,
                    sweeps >>

VMCNext ==
    \/ Enter \/ BeginSweep
    \/ MetropolisPropose \/ MetropolisDecide
    \/ ImportanceSamplingPropose \/ ImportanceSamplingDecide
    \/ EndBurnInSweep \/ EndDecorrSweep \/ EndBurnIn
    \/ BeginSample \/ Record \/ Return

\* ------------------------------------------------------------------ optimizer
Walkers == 1 .. numWalkers_gradDesc
Params == 1 .. V

\* the parameter bounds a caller may pass; Bound's constructor asserts upper >= lower
ParamBoundChoices == {[lower |-> 1, upper |-> 3], [lower |-> -2, upper |-> 2],
                      [lower |-> 3, upper |-> 3]}

\* the arguments (lower_, upper_) a caller may hand to Bound's constructor
BoundArgs == ParamBoundChoices \cup {[lower |-> 2, upper |-> -2], [lower |-> 4, upper |-> 3]}

\* assert(upper.val >= lower.val) in Bound's constructor
BoundAssertOff(lower_, upper_) == TRUE
BoundAssert(lower_, upper_) == upper_ >= lower_

\* Mean(currentLEPs) of a VMC run
Energies == {-1, 1}

\* (energiesIncreasedParam - energiesDecreasedParam) / (2 gradStep) of a VMC run
Gradients == {-200, 0, 200}

\* ErrorOnAvg(currentLEPs, ...) of a VMC run
StdDevs == {1}

RECURSIVE SqrtSearch(_, _, _)
SqrtSearch(x, lo, hi) ==
    IF lo = hi THEN lo
    ELSE LET mid == (lo + hi + 1) \div 2
         IN IF mid * mid <= x THEN SqrtSearch(x, mid, hi) ELSE SqrtSearch(x, lo, mid - 1)

\* std::sqrt on the fixed point values
ISqrt(x) == SqrtSearch(x, 0, x)

RECURSIVE SumSq(_, _)
SumSq(vec, k) == IF k = 0 THEN 0 ELSE vec[k] * vec[k] + SumSq(vec, k - 1)

\* sqrt(inner_product(x, x))
Norm(vec) == ISqrt(SumSq(vec, V))

\* bounds[v].lower + bounds[v].Length() * unif(localGen)
InitialParams(bs, us) ==
    [v \in Params |-> bs[v].lower + TruncDiv(Length(bs[v]) * us[v].num, us[v].den)]

\* -3/4 (Einc - Edec) / (2 gradStep) + 1/4 oldMomentum
Momentum(g, old) == [v \in Params |-> TruncDiv(-3 * g[v] + old[v], 4)]

\* gradStep / currentParamsNorm < stoppingThreshold_gradDesc; x/0 is inf or NaN
TerminationCondition(gs, pn) == pn # 0 /\ gs < stoppingThreshold_gradDesc * pn

\* assert((i + 1) != maxLoops_gradDesc)
LoopCapAssertOff(k) == TRUE
LoopCapAssert(k) == (k + 1) # maxLoops_gradDesc

\* multiplier * currentMomentum[v] after k halvings of multiplier = 0.02f; a product
\* below the resolution of FPType is lost in the sum with currentParams[v].val
ScaledNeverLost(mom, k) ==
    IF mom = 0 \/ TruncDiv(mom * 2, 100 * (2 ^ k)) # 0 THEN TruncDiv(mom * 2, 100 * (2 ^ k))
    ELSE IF mom > 0 THEN 1 ELSE -1
Scaled(mom, k) == TruncDiv(mom * 2, 100 * (2 ^ k))

\* the condition of the while loop: the proposal leaves the bound
LeavesBoundUpperOnly(x, b) == x > b.upper
LeavesBound(x, b) == (x > b.upper) \/ (x < b.lower)

\* the halvings the while loop makes for one parameter; MaxHalvings + 1 if it does not end
RECURSIVE Halvings(_, _, _, _)
Halvings(cp, mom, b, k) ==
    IF k > MaxHalvings THEN k
    ELSE IF LeavesBound(cp + Scaled(mom, k), b) THEN Halvings(cp, mom, b, k + 1)
    ELSE k

\* currentParams[v].val += multiplier * currentMomentum[v], for every v
CommitStep(cp, mom, bs) ==
    [v \in Params |-> cp[v] + Scaled(mom[v], Halvings(cp[v], mom[v], bs[v], 0))]

\* every while loop of the step ends
StepEnds(cp, mom, bs) == \A v \in Params : Halvings(cp[v], mom[v], bs[v], 0) <= MaxHalvings

\* a value-initialized VMCResult<V>, as std::vector makes its elements
EmptyResult == [energy |-> 0, stdDev |-> 0, bestParams |-> [v \in Params |-> 0]]

\* std::min_element with vmcr1.energy < vmcr2.energy: the first slot of least energy
MinElement(rs) ==
    CHOOSE k \in 1 .. Len(rs) :
        /\ \A l \in 1 .. Len(rs) : rs[k].energy <= rs[l].energy
        /\ \A l \in 1 .. (k - 1) : rs[l].energy > rs[k].energy

\* a call of VMCEnergy: VMCRBestParams_(parBounds, ..., numWalkers, ..., gen)
OptInit ==
    /\ varParNum \in {0, V}
    /\ numWalkers \in 0 .. (numWalkers_gradDesc + 1)
    /\ parBounds = << >>
    /\ opc = "construct" /\ m = 0 /\ genUsers = {}
    /\ vmcResults = << >> /\ returned = "none"
    /\ wpc = [w \in Walkers |-> "unborn"]
    /\ loop = [w \in Walkers |-> 0]
    /\ currentParams = [w \in Walkers |-> [v \in Params |-> 0]]
    /\ oldMomentum = [w \in Walkers |-> [v \in Params |-> 0]]
    /\ gradStep = [w \in Walkers |-> 0]
    /\ guarded = TRUE /\ descents = {}
    /\ runs = 0 /\ analyses = 0
    /\ currentLEPs = [w \in Walkers |-> << >>]
    /\ ranAt = [w \in Walkers |-> [v \in Params |-> 0]]
    /\ runsOf = [w \in Walkers |-> 0]

walkerVars == << wpc, loop, currentParams, oldMomentum, gradStep >>
optArgs == << varParNum, numWalkers >>
optHist == << runs, analyses >>
runHist == << currentLEPs, ranAt, runsOf >>

\* the caller builds ParamBounds<V>: one Bound(lower_, upper_) per variational parameter,
\* none for V = 0; then it calls VMCRBestParams_
ConstructBound ==
    /\ opc = "construct"
    /\ IF Len(parBounds) = varParNum
       THEN opc' = "start" /\ UNCHANGED parBounds
       ELSE \E args \in BoundArgs :
               IF BoundAssert(args.lower, args.upper)
               THEN /\ parBounds' = Append(parBounds, [lower |-> args.lower, upper |-> args.upper])
                    /\ UNCHANGED opc
               ELSE opc' = "abortedBound" /\ UNCHANGED parBounds
    /\ UNCHANGED << vmcVars, statVars, peakVars, optArgs, runHist, m, genUsers, vmcResults, returned, walkerVars,
                    guarded, descents, optHist >>

\* if constexpr (V == VarParNum{0})
NoParamsNever(v) == FALSE
NoParams(v) == v = 0

\* assert(numWalkers > 0); if constexpr (V == 0) the one VMC run lepsCalc(fakeParams)
\* starts; else the vector of numWalkers results, and generate_n launches its tasks
Launch ==
    /\ opc = "start"
    /\ IF ~(numWalkers > 0)
       THEN /\ opc' = "aborted" /\ UNCHANGED << vmcResults, wpc, runs >>
       ELSE IF NoParams(varParNum)
       THEN /\ opc' = "singleRun" /\ runs' = runs + 1
            /\ UNCHANGED << vmcResults, wpc >>
       ELSE /\ opc' = "walking"
            /\ vmcResults' = [k \in 1 .. numWalkers |-> EmptyResult]
            /\ wpc' = [w \in Walkers |-> "born"]
            /\ UNCHANGED runs
    /\ UNCHANGED << vmcVars, statVars, peakVars, optArgs, parBounds, runHist, m, genUsers, returned, loop,
                    currentParams, oldMomentum, gradStep, guarded, descents, analyses >>

\* V == 0: return VMCResult<0>{Mean(vmcLEPs), ErrorOnAvg(vmcLEPs, ...), VarParams<0>{}}
SingleRunReturn ==
    /\ opc = "singleRun"
    /\ \E en \in Energies, sd \in StdDevs :
          returned' = [slot |-> 0, res |-> [energy |-> en, stdDev |-> sd, bestParams |-> << >>]]
    /\ analyses' = analyses + 1
    /\ opc' = "done"
    /\ UNCHANGED << vmcVars, statVars, peakVars, optArgs, parBounds, runHist, m, genUsers, vmcResults, walkerVars,
                    guarded, descents, runs >>

\* lock_guard l(m); seed_ = gen(): the mutex is taken and the call on gen begins
DrawSeedBegin(w) ==
    /\ opc = "walking" /\ wpc[w] = "born"
    /\ m = 0
    /\ m' = w
    /\ genUsers' = genUsers \cup {w}
    /\ guarded' = (guarded /\ m' = w)
    /\ wpc' = [wpc EXCEPT ![w] = "seeding"]
    /\ UNCHANGED << vmcVars, statVars, peakVars, optArgs, parBounds, runHist, opc, vmcResults, returned, loop,
                    currentParams, oldMomentum, gradStep, descents, optHist >>

\* the call on gen ends and the mutex is released; localGen is seeded, the initial
\* parameters are drawn from it and the descent is entered (assert(!isnan), gradStep,
\* oldMomentum)
DrawSeedEnd(w) ==
    /\ opc = "walking" /\ wpc[w] = "seeding"
    /\ m' = 0
    /\ genUsers' = genUsers \ {w}
    /\ \E us \in [Params -> USamples] :
          LET initialParams == InitialParams(parBounds, us)
          IN /\ currentParams' = [currentParams EXCEPT ![w] = initialParams]
             /\ gradStep' = [gradStep EXCEPT ![w] = TruncDiv(Norm(initialParams), stepDenom_gradDesc)]
    /\ oldMomentum' = [oldMomentum EXCEPT ![w] = [v \in Params |-> 0]]
    /\ loop' = [loop EXCEPT ![w] = 0]
    /\ wpc' = [wpc EXCEPT ![w] = "iter"]
    /\ UNCHANGED << vmcVars, statVars, peakVars, optArgs, parBounds, runHist, opc, vmcResults, returned,
                    guarded, descents, optHist >>

\* the head of the descent's loop: the loop ends at the cap, the assertion stops the
\* last iteration, or lepsCalc(currentParams) starts a VMC run, whose sweeps draw from
\* the generator the calculator captured: the shared gen of VMCEnergy
IterBegin(w) ==
    /\ opc = "walking" /\ wpc[w] = "iter"
    /\ IF loop[w] = maxLoops_gradDesc
       THEN /\ wpc' = [wpc EXCEPT ![w] = "exhausted"]
            /\ UNCHANGED << opc, genUsers, guarded, runs, ranAt, runsOf >>
       ELSE IF ~LoopCapAssert(loop[w])
       THEN /\ wpc' = [wpc EXCEPT ![w] = "abortedCap"]
            /\ opc' = "aborted"
            /\ UNCHANGED << genUsers, guarded, runs, ranAt, runsOf >>
       ELSE /\ wpc' = [wpc EXCEPT ![w] = "sampling"]
            /\ genUsers' = genUsers \cup {w}
            /\ guarded' = (guarded /\ m = w)
            /\ runs' = runs + 1
            /\ ranAt' = [ranAt EXCEPT ![w] = currentParams[w]]
            /\ runsOf' = [runsOf EXCEPT ![w] = runsOf[w] + 1]
            /\ UNCHANGED opc
    /\ UNCHANGED << vmcVars, statVars, peakVars, optArgs, parBounds, currentLEPs, m, vmcResults,
                    returned, loop, currentParams, oldMomentum, gradStep, descents, analyses >>

\* the write of a descent's result into its element of vmcResults by generate_n; an
\* element past the end of the vector is undefined behaviour: the write is lost, or
\* the process is killed
StoreOutcomes(rs, w) == IF w <= Len(rs) THEN {"stored"} ELSE {"lost", "killed"}
StoreResult(rs, w, r) == IF w <= Len(rs) THEN [rs EXCEPT ![w] = r] ELSE rs

\* ++i of the descent's loop
NextLoopStuck(k) == k
NextLoop(k) == k + 1

\* the local energies currentLEPs = lepsCalc(currentParams) of a VMC run
LEPSeqs == {<< -2, 0 >>, << 1, 1 >>}

RECURSIVE SumOf(_, _)
SumOf(es, k) == IF k = 0 THEN 0 ELSE es[k] + SumOf(es, k - 1)

\* Mean(currentLEPs): the sample mean of the local energies
Mean(leps) == TruncDiv(SumOf(leps, Len(leps)), Len(leps))

RECURSIVE SumSqDev(_, _, _)
SumSqDev(es, avg, k) ==
    IF k = 0 THEN 0 ELSE (es[k] - avg) * (es[k] - avg) + SumSqDev(es, avg, k - 1)

\* ErrorOnAvg(currentLEPs, ...): the standard deviation of the mean of the local energies
ErrorOnAvg(leps) ==
    ISqrt(TruncDiv(SumSqDev(leps, Mean(leps), Len(leps)), Len(leps) * (Len(leps) - 1)))

\* result.energy = currentEn; result.stdDev = ErrorOnAvg(currentLEPs, ...);
\* result.bestParams = currentParams
ConvergedResultNoError(en, sd, cp) == [energy |-> en, stdDev |-> 0, bestParams |-> cp]
ConvergedResult(en, sd, cp) == [energy |-> en, stdDev |-> sd, bestParams |-> cp]

\* the VMC run returns its samples; the momentum, the termination test, and either the
\* result (ErrorOnAvg draws from the walker's localGen) or the step
IterEnd(w) ==
    /\ opc = "walking" /\ wpc[w] = "sampling"
    /\ genUsers' = genUsers \ {w}
    /\ \E leps \in LEPSeqs, g \in [Params -> Gradients],
          outcome \in StoreOutcomes(vmcResults, w) :
          LET currentEn == Mean(leps)
              currentMomentum == Momentum(g, oldMomentum[w])
              currentParamsNorm == Norm(currentParams[w])
              newGradStep == Norm(currentMomentum)
              res == ConvergedResult(currentEn, ErrorOnAvg(leps), currentParams[w])
          IN /\ currentLEPs' = [currentLEPs EXCEPT ![w] = leps]
             /\ IF gradStep[w] = 0
                THEN \* 0/0: assert(!std::isnan(result_))
                     /\ wpc' = [wpc EXCEPT ![w] = "abortedNaN"]
                     /\ opc' = "aborted"
                     /\ UNCHANGED << loop, currentParams, oldMomentum, gradStep, vmcResults,
                                     descents, analyses >>
                ELSE IF TerminationCondition(newGradStep, currentParamsNorm)
                THEN /\ wpc' = [wpc EXCEPT ![w] = "converged"]
                     /\ gradStep' = [gradStep EXCEPT ![w] = newGradStep]
                     /\ vmcResults' = StoreResult(vmcResults, w, res)
                     /\ descents' = descents \cup {[walker |-> w, res |-> res]}
                     /\ opc' = IF outcome = "killed" THEN "aborted" ELSE opc
                     /\ analyses' = analyses + 1
                     /\ UNCHANGED << loop, currentParams, oldMomentum >>
                ELSE IF StepEnds(currentParams[w], currentMomentum, parBounds)
                THEN /\ currentParams' = [currentParams EXCEPT ![w] =
                                             CommitStep(currentParams[w], currentMomentum, parBounds)]
                     /\ oldMomentum' = [oldMomentum EXCEPT ![w] = currentMomentum]
                     /\ gradStep' = [gradStep EXCEPT ![w] = newGradStep]
                     /\ loop' = [loop EXCEPT ![w] = NextLoop(loop[w])]
                     /\ wpc' = [wpc EXCEPT ![w] = "iter"]
                     /\ UNCHANGED << opc, vmcResults, descents, analyses >>
                ELSE /\ wpc' = [wpc EXCEPT ![w] = "halving"]
                     /\ gradStep' = [gradStep EXCEPT ![w] = newGradStep]
                     /\ UNCHANGED << opc, loop, currentParams, oldMomentum, vmcResults, descents,
                                     analyses >>
    /\ UNCHANGED << vmcVars, statVars, peakVars, optArgs, parBounds, ranAt, runsOf, m, returned,
                    guarded, runs >>

\* the descent's call has returned: by the break, or by falling out of the loop with
\* its result never assigned
WalkerReturned(w) == wpc[w] \in {"converged", "exhausted"}

\* generate_n has joined its tasks: return *std::min_element(vmcResults)
PickBest ==
    /\ opc = "walking"
    /\ \A w \in Walkers : WalkerReturned(w)
    /\ returned' = [slot |-> MinElement(vmcResults), res |-> vmcResults[MinElement(vmcResults)]]
    /\ opc' = "done"
    /\ UNCHANGED << vmcVars, statVars, peakVars, optArgs, parBounds, runHist, m, genUsers, vmcResults,
                    walkerVars, guarded, descents, optHist >>

OptNext ==
    \/ ConstructBound
    \/ Launch \/ SingleRunReturn
    \/ \E w \in Walkers : DrawSeedBegin(w)
    \/ \E w \in Walkers : DrawSeedEnd(w)
    \/ \E w \in Walkers : IterBegin(w)
    \/ \E w \in Walkers : IterEnd(w)
    \/ PickBest

\* ------------------------------------------------------------------ statistics
RECURSIVE Gcd(_, _)
Gcd(a, b) == IF b = 0 THEN a ELSE Gcd(b, a % b)

\* a rational in lowest terms
RatNorm(r) ==
    LET g == Gcd(Abs(r.num), r.den)
    IN IF g = 0 THEN r ELSE Rat(r.num \div g, r.den \div g)
RatAdd(a, b) == RatNorm(Rat(a.num * b.den + b.num * a.den, a.den * b.den))
RatSub(a, b) == RatNorm(Rat(a.num * b.den - b.num * a.den, a.den * b.den))
RatMul(a, b) == RatNorm(Rat(a.num * b.num, a.den * b.den))
RatEq(a, b) == a.num * b.den = b.num * a.den
RatLeq(a, b) == a.num * b.den <= b.num * a.den

\* std::sqrt of a rational, kept as its argument
SqrtOf(r) == [sqrtOf |-> r]

\* num / den, with den * 2^(MantissaBits - 1) <= num < den * 2^MantissaBits, to the
\* nearest integer, a tie to the even one
RoundEven(num, den) ==
    LET q == num \div den
        r == num % den
    IN IF 2 * r > den \/ (2 * r = den /\ q % 2 = 1) THEN q + 1 ELSE q

\* the one element of a set of one element
The(S) == CHOOSE x \in S : TRUE

\* twice and half a rational in lowest terms, in lowest terms
Twice(r) == IF r.den % 2 = 0 THEN Rat(r.num, r.den \div 2) ELSE Rat(2 * r.num, r.den)
Half(r) == IF r.num % 2 = 0 THEN Rat(r.num \div 2, r.den) ELSE Rat(r.num, 2 * r.den)

\* the FPType nearest to num / den > 0
RECURSIVE FlPos(_, _)
FlPos(num, den) ==
    IF num >= den * 2^MantissaBits THEN Twice(FlPos(num, 2 * den))
    ELSE IF num < den * 2^(MantissaBits - 1) THEN Half(FlPos(2 * num, den))
    ELSE Rat(RoundEven(num, den), 1)

\* the FPType nearest to r
Nearest(r) ==
    IF r.num = 0 THEN Rat(0, 1)
    ELSE IF r.den = 1 /\ Abs(r.num) < 2^MantissaBits THEN r
    ELSE IF r.num < 0 THEN RatMul(Rat(-1, 1), FlPos(-r.num, r.den))
    ELSE FlPos(r.num, r.den)

\* the result of an operation on FPType: the exact value, rounded
Fl(r) == The({Nearest(x) : x \in {r}})

FlAdd(a, b) == The({Nearest(RatAdd(x, y)) : x \in {a}, y \in {b}})
FlSub(a, b) == The({Nearest(RatSub(x, y)) : x \in {a}, y \in {b}})
FlMul(a, b) == The({Nearest(RatMul(x, y)) : x \in {a}, y \in {b}})
FlDiv(a, k) == The({Nearest(RatNorm(Rat(x.num, x.den * k))) : x \in {a}})

\* std::accumulate over energies[lo], ..., energies[hi - 1] (indices from 0), from
\* Energy{0}, a sample added at a time
RECURSIVE Accumulate(_, _, _)
Accumulate(es, lo, hi) ==
    IF lo >= hi THEN Rat(0, 1) ELSE FlAdd(Accumulate(es, lo, hi - 1), Rat(es[hi], 1))

\* the index range [first, last) the k-th full block is accumulated over
FullBlockRange(k, bs) == [first |-> k * bs, last |-> (k + 1) * bs]

\* the index range the block of the remaining energies is accumulated over
PartialBlockRange(numOfBlocks, reminder) ==
    [first |-> numOfBlocks, last |-> numOfBlocks + reminder]

\* the index ranges of the blocks of one block size, in the order of blockMeans
BlockRangesOf(numEn, bs) ==
    LET numOfBlocks == numEn \div bs
        reminder == numEn % bs
        full == [k \in 1 .. numOfBlocks |-> FullBlockRange(k - 1, bs)]
    IN IF reminder # 0 THEN Append(full, PartialBlockRange(numOfBlocks, reminder)) ELSE full

\* the block means of one block size
BlockMeansOf(es, bs) ==
    The({[k \in 1 .. Len(rs) |->
             FlDiv(Accumulate(es, rs[k].first, rs[k].last), rs[k].last - rs[k].first)] :
         rs \in {BlockRangesOf(Len(es), bs)}})

RECURSIVE RatSumSeq(_, _)
RatSumSeq(xs, k) == IF k = 0 THEN Rat(0, 1) ELSE FlAdd(RatSumSeq(xs, k - 1), xs[k])

RECURSIVE RatSumSqSeq(_, _)
RatSumSqSeq(xs, k) ==
    IF k = 0 THEN Rat(0, 1) ELSE FlAdd(RatSumSqSeq(xs, k - 1), FlMul(xs[k], xs[k]))

\* boost::accumulators::mean of the values of xs; 0/0 is NaN
MeanOf(xs) ==
    The({IF Len(v) = 0 THEN NaN ELSE FlDiv(RatSumSeq(v, Len(v)), Len(v)) : v \in {xs}})

\* boost::accumulators::variance of the values of xs: the mean of the squares less the
\* square of the mean
VarianceOf(xs) ==
    The({IF Len(v) = 0 THEN NaN
         ELSE FlSub(FlDiv(RatSumSqSeq(v, Len(v)), Len(v)), FlMul(MeanOf(v), MeanOf(v))) :
         v \in {xs}})

\* the condition of the loop over the block sizes: blockSize <= numEnergies / 2
BlockSizeBelowHalf(bs, numEn) == bs < numEn \div 2
BlockSizeUpToLen(bs, numEn) == bs <= numEn
BlockSizeTested(bs, numEn) == bs <= numEn \div 2

\* int numOfBlocks = (numEnergies + blockSize - 1) / blockSize, whose predecessor
\* divides the variance of the block means
NumOfBlocks(numEn, bs) == (numEn + bs - 1) \div bs

\* blockSize += 2 at the end of an iteration, after blockSize = 0 for blockSize == 1
NextBlockSize(bs) == (IF bs = 1 THEN 0 ELSE bs) + 2

EnergySeqs(maxLen, values) == UNION {[1 .. len -> values] : len \in 0 .. maxLen}

\* the energies handed to BlockingAnalysis: up to MaxBlockingLen of them, every
\* sequence of 0 and 1 of up to MaxVariedLen followed by ones, and the short sequences
\* of 1 and 3
BlockingEnergies ==
    {[k \in 1 .. len |-> IF k <= Len(head) THEN head[k] ELSE 1] :
        head \in EnergySeqs(MaxVariedLen, {0, 1}), len \in 0 .. MaxBlockingLen}
    \cup EnergySeqs(MaxRoundedLen, {1, 3})

\* a call of BlockingAnalysis, of BootstrapAnalysis or of AvgAndVar_ with its arguments
StatInit ==
    /\ \/ /\ spc = "blockingCall"
          /\ energies \in BlockingEnergies
          /\ numSamples = 0
       \/ /\ spc = "bootstrapCall"
          /\ energies \in EnergySeqs(MaxBootstrapLen, {0, 1})
          /\ numSamples \in 0 .. MaxResamples
       \/ /\ spc = "avgAndVarCall"
          /\ energies \in EnergySeqs(MaxRoundedLen, {1, 3})
          /\ numSamples = 0
    /\ blockSize = 0
    /\ blockingResult = "none" /\ blockRanges = << >> /\ rep = 0
    /\ accBlocksMeans = << >> /\ accBlocksVars = << >>
    /\ bootstrapMeans = << >> /\ bootstrapVars = << >> /\ drawn = << >>
    /\ bootstrapResult = "none"
    /\ call = 1 /\ firstResult = "none" /\ drawLog = << >> /\ given = energies
    /\ avgAndVar = "none"

bootVars == << numSamples, rep, accBlocksMeans, accBlocksVars, bootstrapMeans, bootstrapVars,
               drawn, bootstrapResult >>
callVars == << call, firstResult, given >>

\* BlockingAnalysis: assert(numEnergies > 1), the empty lists, blockSize = 1
BlockingEnter ==
    /\ spc = "blockingCall"
    /\ IF Len(energies) > 1
       THEN /\ spc' = "blocking" /\ blockSize' = 1
            /\ blockingResult' = [sizes |-> << >>, means |-> << >>, stdDevs |-> << >>]
            /\ blockRanges' = << >>
       ELSE /\ spc' = "aborted" /\ UNCHANGED << blockSize, blockingResult, blockRanges >>
    /\ UNCHANGED << vmcVars, optVars, peakVars, energies, avgAndVar, bootVars, callVars, drawLog >>

\* BlockingAnalysis: one iteration of the loop over the block sizes
BlockingIteration ==
    /\ spc = "blocking" /\ BlockSizeTested(blockSize, Len(energies))
    /\ LET blockMeans == BlockMeansOf(energies, blockSize)
       IN blockingResult' =
              [sizes |-> Append(blockingResult.sizes, blockSize),
               means |-> Append(blockingResult.means, MeanOf(blockMeans)),
               stdDevs |-> Append(blockingResult.stdDevs, SqrtOf(VarianceOf(blockMeans)))]
    /\ blockRanges' = Append(blockRanges, BlockRangesOf(Len(energies), blockSize))
    /\ blockSize' = NextBlockSize(blockSize)
    /\ UNCHANGED << vmcVars, optVars, peakVars, energies, avgAndVar, spc, bootVars, callVars, drawLog >>

\* BlockingAnalysis: the loop ends, the two assertions on the sizes of the lists, return
BlockingReturn ==
    /\ spc = "blocking" /\ ~BlockSizeTested(blockSize, Len(energies))
    /\ IF /\ Len(blockingResult.sizes) = Len(blockingResult.means)
          /\ Len(blockingResult.sizes) = Len(blockingResult.stdDevs)
       THEN spc' = "blockingDone"
       ELSE spc' = "aborted"
    /\ UNCHANGED << vmcVars, optVars, peakVars, energies, avgAndVar, blockSize, blockingResult, blockRanges, bootVars,
                    callVars, drawLog >>

\* AccumulatorSet accBlocksMeans; a local of the call, constructed empty whatever an
\* earlier call left behind
AccumulatorKept(acc) == acc
FreshAccumulator(acc) == << >>

\* BootstrapAnalysis: assert(numEnergies > 1), the two vectors and the two accumulators
BootstrapEnter ==
    /\ spc = "bootstrapCall"
    /\ IF Len(energies) > 1
       THEN spc' = "means"
       ELSE spc' = "aborted"
    /\ rep' = 0
    /\ accBlocksMeans' = FreshAccumulator(accBlocksMeans)
    /\ accBlocksVars' = FreshAccumulator(accBlocksVars)
    /\ bootstrapMeans' = << >> /\ bootstrapVars' = << >> /\ drawn' = << >>
    /\ UNCHANGED << vmcVars, optVars, peakVars, energies, avgAndVar, blockSize, blockingResult, blockRanges,
                    numSamples, bootstrapResult, callVars, drawLog >>

\* the index draws of one resample: uIntDis(gen) in 0 .. numEnergies - 1, numEnergies_
\* times; the first index every time, each index once, or the last index every time
Resamples(numEn) ==
    {[k \in 1 .. numEn |-> 0], [k \in 1 .. numEn |-> k - 1], [k \in 1 .. numEn |-> numEn - 1]}

\* what the generator yields: in the repeated call, from the same seeded state, the
\* draws of the first call in their order
Draws(numEn) == IF call = 2 /\ drawLog # << >> THEN {Head(drawLog)} ELSE Resamples(numEn)
DrawsLeft(idx) ==
    IF call = 2 THEN (IF drawLog # << >> THEN Tail(drawLog) ELSE drawLog)
    ELSE Append(drawLog, idx)

\* the values of one resample: energies[uIntDis(gen)].val
SampleOf(es, idx) == [k \in 1 .. Len(idx) |-> Rat(es[idx[k] + 1], 1)]

\* GenerateBootstrapSample(..., accBlocksMeans, "mean"): the sample is fed to the
\* accumulator it was handed, and the mean of that accumulator is returned
ResampleMean ==
    /\ spc = "means" /\ rep # numSamples
    /\ \E idx \in Draws(Len(energies)) :
          LET sample == SampleOf(energies, idx)
          IN /\ accBlocksMeans' = accBlocksMeans \o sample
             /\ bootstrapMeans' = Append(bootstrapMeans, MeanOf(accBlocksMeans'))
             /\ drawn' = Append(drawn, sample)
             /\ drawLog' = DrawsLeft(idx)
    /\ rep' = rep + 1
    /\ UNCHANGED << vmcVars, optVars, peakVars, energies, avgAndVar, spc, blockSize, blockingResult, blockRanges,
                    numSamples, accBlocksVars, bootstrapVars, bootstrapResult, callVars >>

\* the std::generate over bootstrapMeans is over: the one over bootstrapVars starts
MeansFilled ==
    /\ spc = "means" /\ rep = numSamples
    /\ spc' = "vars" /\ rep' = 0
    /\ UNCHANGED << vmcVars, optVars, peakVars, energies, avgAndVar, blockSize, blockingResult, blockRanges,
                    numSamples, accBlocksMeans, accBlocksVars, bootstrapMeans, bootstrapVars,
                    drawn, bootstrapResult, callVars, drawLog >>

\* GenerateBootstrapSample(..., accBlocksVars, "variance")
ResampleVar ==
    /\ spc = "vars" /\ rep # numSamples
    /\ \E idx \in Draws(Len(energies)) :
          /\ accBlocksVars' = accBlocksVars \o SampleOf(energies, idx)
          /\ bootstrapVars' = Append(bootstrapVars, VarianceOf(accBlocksVars'))
          /\ drawLog' = DrawsLeft(idx)
    /\ rep' = rep + 1
    /\ UNCHANGED << vmcVars, optVars, peakVars, energies, avgAndVar, spc, blockSize, blockingResult, blockRanges,
                    numSamples, accBlocksMeans, bootstrapMeans, drawn, bootstrapResult, callVars >>

\* boost::accumulators::min / max of the values of xs
MinOf(xs) == CHOOSE x \in {xs[k] : k \in 1 .. Len(xs)} : \A k \in 1 .. Len(xs) : RatLeq(x, xs[k])
MaxOf(xs) == CHOOSE x \in {xs[k] : k \in 1 .. Len(xs)} : \A k \in 1 .. Len(xs) : RatLeq(xs[k], x)

\* the confidence interval: the least and the largest of the bootstrap means; an
\* accumulator that was fed nothing holds the limits of FPType
ConfIntervalOf(means) ==
    IF Len(means) = 0 THEN [min |-> "numeric_limits::max", max |-> "numeric_limits::lowest"]
    ELSE [min |-> MinOf(means), max |-> MaxOf(means)]

\* sqrt(mean(bootstrapVars) / (numEnergies - 1))
StdDevOfMeans(vs, numEn) ==
    IF Len(vs) = 0 THEN NaN ELSE SqrtOf(FlDiv(MeanOf(vs), numEn - 1))

\* the statistics of the bootstrap means and variances, and the result
BootstrapReturn ==
    /\ spc = "vars" /\ rep = numSamples
    /\ bootstrapResult' = [mean |-> MeanOf(bootstrapMeans),
                           stdDev |-> StdDevOfMeans(bootstrapVars, Len(energies)),
                           confInterval |-> ConfIntervalOf(bootstrapMeans)]
    /\ spc' = "bootstrapDone"
    /\ UNCHANGED << vmcVars, optVars, peakVars, energies, avgAndVar, blockSize, blockingResult, blockRanges,
                    numSamples, rep, accBlocksMeans, accBlocksVars, bootstrapMeans,
                    bootstrapVars, drawn, callVars, drawLog >>

\* the caller keeps the result and calls the same analysis again, on the same energies,
\* with the same resample count and the generator reseeded to the same state
CallAgain ==
    /\ call = 1 /\ spc \in {"blockingDone", "bootstrapDone"}
    /\ firstResult' = IF spc = "blockingDone" THEN blockingResult ELSE bootstrapResult
    /\ spc' = IF spc = "blockingDone" THEN "blockingCall" ELSE "bootstrapCall"
    /\ call' = 2
    /\ UNCHANGED << vmcVars, optVars, peakVars, energies, avgAndVar, blockSize, blockingResult, blockRanges,
                    bootVars, drawLog, given >>

\* the sum of pow(e.val - avg.val, 2) over the first k energies, one added at a time
RECURSIVE SumSqDiffs(_, _, _)
SumSqDiffs(es, avg, k) ==
    IF k = 0 THEN Rat(0, 1)
    ELSE FlAdd(SumSqDiffs(es, avg, k - 1),
               FlMul(FlSub(Rat(es[k], 1), avg), FlSub(Rat(es[k], 1), avg)))

\* assert(v.size() > 1)
SizeAssert(size) == size > 1

\* AvgAndVar_: assert(v.size() > 1), the average, and the variance of the average with
\* its divisor size * (size - 1)
AvgAndVar_ ==
    /\ spc = "avgAndVarCall"
    /\ LET size == Len(energies)
           avg == FlDiv(Accumulate(energies, 0, size), size)
       IN IF SizeAssert(size)
          THEN /\ spc' = "avgAndVarDone"
               /\ avgAndVar' = [avg |-> avg, divisor |-> size * (size - 1),
                                var |-> IF size * (size - 1) = 0 THEN NaN
                                        ELSE FlDiv(SumSqDiffs(energies, avg, size),
                                                   size * (size - 1))]
          ELSE spc' = "aborted" /\ UNCHANGED avgAndVar
    /\ UNCHANGED << vmcVars, optVars, peakVars, energies, numSamples, blockSize, blockingResult,
                    blockRanges, rep, accBlocksMeans, accBlocksVars, bootstrapMeans,
                    bootstrapVars, drawn, bootstrapResult, callVars, drawLog >>

StatNext ==
    \/ BlockingEnter \/ BlockingIteration \/ BlockingReturn
    \/ BootstrapEnter \/ ResampleMean \/ MeansFilled \/ ResampleVar \/ BootstrapReturn
    \/ CallAgain
    \/ AvgAndVar_

\* ------------------------------------------------------------------ peak search
Tasks == 1 .. MaxPoints

\* the regions a caller may pass: around the origin, or from the origin upwards
PeakBoundChoices == {[lower |-> -XMax, upper |-> XMax], [lower |-> 0, upper |-> 2 * XMax]}

\* (b.upper + b.lower) / 2 for every dimension, the same for every particle
Center(bs) == [k \in Particles |-> [d \in Dims |-> TruncDiv(bs[d].upper + bs[d].lower, 2)]]

\* values of unif(gen) in the search
PeakUSamples == {Rat(0, 1), Rat(1, 4), Rat(1, 2)}

\* b.lower + (b.upper - b.lower) * unif(gen), for every particle and dimension
Candidates(bs) ==
    {[k \in Particles |-> [d \in Dims |->
          bs[d].lower + TruncDiv(Length(bs[d]) * us[k][d].num, us[k][d].den)]] :
       us \in [Particles -> [Dims -> PeakUSamples]]}

\* (pot(newPoss) > pot(result)) && (wavef(newPoss, params) > minWavef_peakSearch)
Replaces(new, cur) == pot(new) > pot(cur) /\ wavef(new) > minWavef_peakSearch

PeakIdle ==
    /\ peakBounds = << >> /\ numPoints = 0 /\ fpc = "unused" /\ peakResult = << >>
    /\ peakMutex = 0 /\ peakGenUsers = {} /\ tpc = << >> /\ newPoss = << >>

\* a call of FindPeak_ with its arguments
PeakInit ==
    /\ peakBounds \in [Dims -> PeakBoundChoices]
    /\ numPoints \in 0 .. MaxPoints
    /\ fpc = "start" /\ peakResult = << >>
    /\ peakMutex = 0 /\ peakGenUsers = {}
    /\ tpc = [t \in Tasks |-> "unborn"]
    /\ newPoss = [t \in Tasks |-> << >>]

\* assert(numPoints > 0); result is filled with the centre; for_each launches one task
\* per index
PeakEnter ==
    /\ fpc = "start"
    /\ IF numPoints > 0
       THEN /\ fpc' = "searching"
            /\ peakResult' = Center(peakBounds)
            /\ tpc' = [t \in Tasks |-> IF t <= numPoints THEN "idle" ELSE "unborn"]
       ELSE /\ fpc' = "aborted" /\ UNCHANGED << peakResult, tpc >>
    /\ UNCHANGED << vmcVars, optVars, statVars, peakBounds, numPoints, peakMutex, peakGenUsers,
                    newPoss >>

\* a task starts to fill newPoss: unif(gen) is called, outside the lock
TaskDrawBegin(t) ==
    /\ fpc = "searching" /\ tpc[t] = "idle"
    /\ peakGenUsers' = peakGenUsers \cup {t}
    /\ tpc' = [tpc EXCEPT ![t] = "drawing"]
    /\ UNCHANGED << vmcVars, optVars, statVars, peakBounds, numPoints, fpc, peakResult, peakMutex,
                    newPoss >>

\* newPoss is filled
TaskDrawEnd(t) ==
    /\ fpc = "searching" /\ tpc[t] = "drawing"
    /\ \E c \in Candidates(peakBounds) : newPoss' = [newPoss EXCEPT ![t] = c]
    /\ peakGenUsers' = peakGenUsers \ {t}
    /\ tpc' = [tpc EXCEPT ![t] = "drawn"]
    /\ UNCHANGED << vmcVars, optVars, statVars, peakBounds, numPoints, fpc, peakResult, peakMutex >>

\* the constructor of std::lock_guard returns once no other task holds the mutex
MutexIgnored(holder) == TRUE
MutexFree(holder) == holder = 0

\* std::lock_guard<std::mutex> l(m)
TaskLock(t) ==
    /\ fpc = "searching" /\ tpc[t] = "drawn"
    /\ MutexFree(peakMutex)
    /\ peakMutex' = t
    /\ tpc' = [tpc EXCEPT ![t] = "locked"]
    /\ UNCHANGED << vmcVars, optVars, statVars, peakBounds, numPoints, fpc, peakResult,
                    peakGenUsers, newPoss >>

\* the comparison against the result as it is read now; when it fails, the end of the
\* guard's scope
TaskCompare(t) ==
    /\ fpc = "searching" /\ tpc[t] = "locked"
    /\ IF Replaces(newPoss[t], peakResult)
       THEN /\ tpc' = [tpc EXCEPT ![t] = "replacing"] /\ UNCHANGED peakMutex
       ELSE /\ tpc' = [tpc EXCEPT ![t] = "finished"] /\ peakMutex' = 0
    /\ UNCHANGED << vmcVars, optVars, statVars, peakBounds, numPoints, fpc, peakResult,
                    peakGenUsers, newPoss >>

\* result = newPoss, and the end of the guard's scope
TaskReplace(t) ==
    /\ fpc = "searching" /\ tpc[t] = "replacing"
    /\ peakResult' = newPoss[t]
    /\ peakMutex' = 0
    /\ tpc' = [tpc EXCEPT ![t] = "finished"]
    /\ UNCHANGED << vmcVars, optVars, statVars, peakBounds, numPoints, fpc, peakGenUsers, newPoss >>

\* for_each has joined its tasks: return result
PeakReturn ==
    /\ fpc = "searching"
    /\ \A t \in Tasks : tpc[t] \in {"finished", "unborn"}
    /\ fpc' = "done"
    /\ UNCHANGED << vmcVars, optVars, statVars, peakBounds, numPoints, peakResult, peakMutex,
                    peakGenUsers, tpc, newPoss >>

PeakNext ==
    \/ PeakEnter
    \/ \E t \in Tasks : TaskDrawBegin(t)
    \/ \E t \in Tasks : TaskDrawEnd(t)
    \/ \E t \in Tasks : TaskLock(t)
    \/ \E t \in Tasks : TaskCompare(t)
    \/ \E t \in Tasks : TaskReplace(t)
    \/ PeakReturn

\* ------------------------------------------------------------------ idle parts
OptIdle ==
    /\ varParNum = 0 /\ runs = 0 /\ analyses = 0
    /\ numWalkers = 0 /\ parBounds = << >> /\ opc = "unused" /\ m = 0 /\ genUsers = {}
    /\ vmcResults = << >> /\ returned = "none"
    /\ wpc = << >> /\ loop = << >> /\ currentParams = << >> /\ oldMomentum = << >>
    /\ gradStep = << >> /\ guarded = TRUE /\ descents = {}
    /\ currentLEPs = << >> /\ ranAt = << >> /\ runsOf = << >>

StatIdle ==
    /\ energies = << >> /\ numSamples = 0 /\ spc = "unused" /\ blockSize = 0
    /\ blockingResult = "none" /\ blockRanges = << >> /\ rep = 0
    /\ accBlocksMeans = << >> /\ accBlocksVars = << >>
    /\ bootstrapMeans = << >> /\ bootstrapVars = << >> /\ drawn = << >>
    /\ bootstrapResult = "none"
    /\ call = 0 /\ firstResult = "none" /\ drawLog = << >> /\ given = << >>
    /\ avgAndVar = "none"

\* ------------------------------------------------------------------ specifications
Init == VMCInit /\ OptIdle /\ StatIdle /\ PeakIdle

Next == VMCNext

Spec == Init /\ [][Next]_vars

InitOpt == VMCIdle /\ OptInit /\ StatIdle /\ PeakIdle

SpecOpt == InitOpt /\ [][OptNext]_vars

\* the steps of one walker's task
WalkerStep(w) == DrawSeedBegin(w) \/ DrawSeedEnd(w) \/ IterBegin(w) \/ IterEnd(w)

\* the multi-start under a scheduler that lets every task run, with every VMC run
\* returning
SpecOptFair == SpecOpt /\ WF_vars(\E w \in Walkers : WalkerStep(w))

InitStat == VMCIdle /\ OptIdle /\ StatInit /\ PeakIdle

SpecStat == InitStat /\ [][StatNext]_vars

InitPeak == VMCIdle /\ OptIdle /\ StatIdle /\ PeakInit

SpecPeak == InitPeak /\ [][PeakNext]_vars

\* ------------------------------------------------------------------ claims
\* C1: a VMC run called with numEnergies > 0 returns exactly numEnergies pairs,
\* one appended per iteration of the sampling loop, under either update and either
\* local energy.
C1_SampleCount ==
    /\ pc = "done" => Len(result) = numEnergies
    /\ pc \in {"sample", "decorr"} => Len(result) = i

C1_Witness == pc = "done" /\ numEnergies = MaxEnergies /\ useImpSamp /\ ~useAnalytical

\* C2: after a rejected move of either update the whole configuration is the one
\* before that particle's proposal; a proposal and an accepted move change the
\* position of the one particle only.
C2_Rollback ==
    /\ lastOutcome = "rejected" => poss = preProposal
    /\ lastOutcome = "proposed" => \A k \in Particles \ {n} : poss[k] = preProposal[k]
    /\ (lastOutcome = "accepted" /\ n > 1) =>
           \A k \in Particles \ {n - 1} : poss[k] = preProposal[k]

C2_Witness == lastOutcome = "rejected" /\ n = N + 1 /\ sweeps > 0 /\ wavef(poss) > 0

\* C3: a walker calls the shared generator only while it holds the mutex, and no two
\* walkers are inside a call on the shared generator at the same time.
C3_SharedGeneratorGuarded == guarded /\ Cardinality(genUsers) <= 1

\* C4: the multi-start carries out exactly numWalkers descents and returns the result
\* of a completed descent of least energy, never a slot no descent wrote.
C4_BestOfNumWalkers ==
    (opc = "done" /\ varParNum > 0) =>
        /\ Cardinality(descents) = numWalkers
        /\ returned.slot \in {d.walker : d \in descents}
        /\ \A d \in descents : returned.res.energy <= d.res.energy

\* C5: a descent returns a result only after its termination condition held in an
\* iteration; the iteration cap stops a descent that did not converge before it.
C5_NoResultWithoutConvergence ==
    \A w \in DOMAIN wpc :
        /\ wpc[w] # "exhausted"
        /\ wpc[w] \in {"sampling", "converged"} => loop[w] + 1 < maxLoops_gradDesc
        /\ \A d \in descents : wpc[d.walker] = "converged"

C5_Witness == \E w \in DOMAIN wpc : wpc[w] = "abortedCap" /\ loop[w] + 1 = maxLoops_gradDesc

\* C6: every parameter of a descent stays within its bound, from the initial
\* parameters through every committed step to the bestParams of a result.
C6_ParamsWithinBounds ==
    /\ \A w \in DOMAIN wpc :
          wpc[w] \in {"iter", "sampling", "converged", "abortedCap", "abortedNaN"} =>
              \A v \in Params : /\ parBounds[v].lower <= currentParams[w][v]
                                /\ currentParams[w][v] <= parBounds[v].upper
    /\ \A d \in descents :
          \A v \in Params : /\ parBounds[v].lower <= d.res.bestParams[v]
                            /\ d.res.bestParams[v] <= parBounds[v].upper

C6_Witness ==
    \E w \in DOMAIN wpc :
        /\ wpc[w] = "iter" /\ loop[w] > 0
        /\ \E v \in Params :
              /\ parBounds[v].lower < parBounds[v].upper
              /\ oldMomentum[w][v] # 0
              /\ LeavesBound(currentParams[w][v] - Scaled(oldMomentum[w][v], 0), parBounds[v])

\* C7: the block sizes BlockingAnalysis returns are the powers of two 1, 2, 4, ...
\* that do not exceed M/2, in increasing order.
C7_PowersOfTwo ==
    spc = "blockingDone" =>
        LET sizes == blockingResult.sizes
        IN /\ \A k \in 1 .. Len(sizes) : sizes[k] = 2 ^ (k - 1)
           /\ Len(sizes) >= 1
           /\ 2 ^ (Len(sizes) - 1) <= Len(energies) \div 2
           /\ 2 ^ Len(sizes) > Len(energies) \div 2

\* C8: for every tested block size b, block k covers the indices [k b, (k + 1) b), a
\* final partial block covers [floor(M / b) b, M), and no index is in two blocks.
C8_DisjointBlocks ==
    \A t \in 1 .. Len(blockRanges) :
        LET b == blockingResult.sizes[t]
            rs == blockRanges[t]
            full == Len(energies) \div b
        IN /\ \A k \in 1 .. Len(rs) :
                 IF k <= full
                 THEN rs[k].first = (k - 1) * b /\ rs[k].last = k * b
                 ELSE rs[k].first = full * b /\ rs[k].last = Len(energies)
           /\ \A k, l \in 1 .. Len(rs) :
                 k < l => (rs[k].last <= rs[l].first \/ rs[l].last <= rs[k].first)

\* C9: each resampled mean is the mean of exactly the M values drawn in its own
\* repetition.
C9_MeanOfOwnResample ==
    \A k \in 1 .. Len(bootstrapMeans) :
        /\ Len(drawn[k]) = Len(energies)
        /\ RatEq(bootstrapMeans[k], MeanOf(drawn[k]))

\* C10: the confidence interval is mean -/+ 1.96 stdDev: min <= mean <= max,
\* min + max = 2 mean, and (max - mean)^2 = 1.96^2 stdDev^2.
C10_SymmetricInterval ==
    (spc = "bootstrapDone" /\ numSamples > 1) =>
        LET r == bootstrapResult
            half == RatSub(r.confInterval.max, r.mean)
        IN /\ RatLeq(r.confInterval.min, r.mean)
           /\ RatLeq(r.mean, r.confInterval.max)
           /\ RatEq(RatAdd(r.confInterval.min, r.confInterval.max), RatMul(Rat(2, 1), r.mean))
           /\ RatEq(RatMul(half, half), RatMul(Rat(196 * 196, 100 * 100), r.stdDev.sqrtOf))

C12_NonPositiveCountAborts ==
    numEnergies <= 0 =>
        /\ pc \in {"start", "aborted"}
        /\ sweeps = 0 /\ upc = "idle" /\ lastOutcome = "none"
        /\ result = << >> /\ poss = preProposal

C12_Witness == pc = "aborted" /\ numEnergies < 0

\* C13: BootstrapAnalysis returns a result only if the resample count and the number
\* of energies both exceed 1; otherwise it fails as a fatal precondition violation.
C13_BootstrapPreconditions ==
    spc = "bootstrapDone" => (numSamples > 1 /\ Len(energies) > 1)

\* C14: a Bound is constructed only from lower_ <= upper_ (anything else is a fatal
\* failure), so every Bound that exists has lower <= upper and a non-negative Length().
C14_BoundsOrdered ==
    /\ \A v \in DOMAIN parBounds :
          parBounds[v].lower <= parBounds[v].upper /\ Length(parBounds[v]) >= 0
    /\ \A d \in Dims : coordBounds[d].lower <= coordBounds[d].upper /\ Length(coordBounds[d]) >= 0

C14_Witness == opc = "abortedBound" /\ parBounds = << >> /\ varParNum = V

\* C15: with no variational parameter the optimizer makes one VMC run and one error
\* analysis and returns: no walker is launched, no seed is drawn under the mutex, no
\* descent iterates, whatever numWalkers > 0 is passed.
C15_NoSearchWithoutParams ==
    varParNum = 0 =>
        /\ \A w \in DOMAIN wpc : wpc[w] = "unborn" /\ loop[w] = 0
        /\ m = 0 /\ genUsers = {} /\ descents = {} /\ vmcResults = << >>
        /\ runs <= 1 /\ analyses <= runs
        /\ opc = "singleRun" => (runs = 1 /\ analyses = 0)
        /\ opc = "done" => (runs = 1 /\ analyses = 1 /\ returned.res.bestParams = << >>)

C15_Witness == opc = "done" /\ varParNum = 0 /\ numWalkers > numWalkers_gradDesc

\* C16: the configuration FindPeak_ returns has a wavefunction value above the floor
\* minWavef_peakSearch, whatever candidates were sampled.
C16_PeakAboveFloor ==
    fpc = "done" => wavef(peakResult) > minWavef_peakSearch

\* C18: every mean BlockingAnalysis returns lies between the least and the largest of
\* the energies it was given.
C18_MeansWithinRange ==
    spc \in {"blocking", "blockingDone"} =>
        \A k \in 1 .. Len(blockingResult.means) :
            /\ \A e \in 1 .. Len(energies) :
                  energies[e] = 0 \/ RatLeq(Rat(0, 1), blockingResult.means[k])
            /\ \E e \in 1 .. Len(energies) : RatLeq(Rat(energies[e], 1), blockingResult.means[k])
            /\ \E e \in 1 .. Len(energies) : RatLeq(blockingResult.means[k], Rat(energies[e], 1))

\* C19: BlockingAnalysis returns one (block size, mean, standard deviation) entry per
\* tested block size: the three lists have the same length, entry k of the means and of
\* the standard deviations is the one of the blocks of size sizes[k], no size is entered
\* twice, and for more than one energy the result is not empty and starts with size 1.
C19_OneEntryPerBlockSize ==
    spc \in {"blocking", "blockingDone"} =>
        LET r == blockingResult
        IN /\ Len(r.sizes) = Len(r.means) /\ Len(r.sizes) = Len(r.stdDevs)
           /\ Len(r.sizes) = Len(blockRanges)
           /\ \A k \in 1 .. Len(r.sizes) :
                 /\ blockRanges[k] = BlockRangesOf(Len(energies), r.sizes[k])
                 /\ \A l \in 1 .. Len(r.sizes) : k < l => r.sizes[k] < r.sizes[l]
           /\ spc = "blockingDone" =>
                 /\ Len(energies) > 1
                 /\ Len(r.sizes) >= 1 /\ r.sizes[1] = 1
                 /\ \A k \in 1 .. Len(r.sizes) :
                       \A blockMeans \in {BlockMeansOf(energies, r.sizes[k])} :
                          /\ r.means[k] = MeanOf(blockMeans)
                          /\ r.stdDevs[k] = SqrtOf(VarianceOf(blockMeans))

C19_Witness ==
    /\ spc = "blockingDone" /\ call = 1
    /\ Len(blockingResult.sizes) >= 3
    /\ blockingResult.means[1] # blockingResult.means[3]

\* C20: one sweep of MetropolisUpdate_ or of ImportanceSamplingUpdate_ proposes a move
\* for each particle once, in the order of the particles, and the count it returns lies
\* in 0 .. N and is the number of particles whose proposal passed the acceptance test.
C20_OneMovePerParticle ==
    /\ count \in 0 .. N /\ count = Cardinality(passed)
    /\ passed \subseteq {attempted[k] : k \in 1 .. Len(attempted)}
    /\ upc = "propose" => attempted = [k \in 1 .. n - 1 |-> k]
    /\ upc = "decide" => attempted = [k \in 1 .. n |-> k]
    /\ (upc = "propose" /\ n > 1 /\ lastOutcome = "accepted") => (n - 1) \in passed
    /\ (upc = "propose" /\ n > 1 /\ lastOutcome = "rejected") =>
          ((n - 1) \notin passed /\ poss = preProposal)
    /\ ((upc = "propose" /\ n > N) \/ (upc = "idle" /\ sweeps > 0)) =>
          attempted = [k \in 1 .. N |-> k]

C20_Witness ==
    /\ upc = "propose" /\ n = N + 1 /\ useImpSamp
    /\ count = 1 /\ passed = {N}

\* C21: the compare-and-replace of FindPeak_ on the shared result loses no update: under
\* every interleaving of the tasks the returned configuration has a potential not below
\* the one of the centre nor below the one of any sampled candidate whose wavefunction
\* is above the floor.
C21_NoLostUpdate ==
    fpc = "done" =>
        /\ pot(peakResult) >= pot(Center(peakBounds))
        /\ \A t \in 1 .. numPoints :
              wavef(newPoss[t]) > minWavef_peakSearch => pot(peakResult) >= pot(newPoss[t])

C21_Witness ==
    /\ fpc = "done" /\ numPoints = MaxPoints
    /\ \A t \in 1 .. numPoints : Replaces(newPoss[t], Center(peakBounds))
    /\ \E t, u \in 1 .. numPoints : pot(newPoss[t]) < pot(newPoss[u])

\* C22: the tasks of the search share no mutable object but the guarded result: no two
\* of them are inside a call on the random generator at the same time.
C22_GeneratorNotShared == Cardinality(peakGenUsers) <= 1

\* C23: a VMC run starts its chain from the result of its own peak search: when the
\* burn-in begins, the search of the run has returned and the configuration is its
\* result (or at the least one a search over the region of the run can return), not a
\* configuration the caller chose.
C23_StartsFromPeak ==
    (pc = "burnin" /\ upc = "idle" /\ sweeps = 0) =>
        \/ fpc = "done" /\ poss = peakResult
        \/ poss = Center(coordBounds)
        \/ Replaces(poss, Center(coordBounds))

\* C24: a run applies movesForgetICs_vmcLEPs sweeps before the first sample and
\* autocorrelationMoves_vmcLEPs sweeps before each sample, movesForgetICs_vmcLEPs +
\* numEnergies * autocorrelationMoves_vmcLEPs in all; nothing is recorded in the burn-in
\* or between two sweeps of a decorrelation, and every sample holds the local energy of
\* the configuration it holds.
C24_SweepSchedule ==
    /\ pc = "burnin" => (result = << >> /\ sweeps = i /\ i <= movesForgetICs_vmcLEPs)
    /\ pc = "decorr" =>
          /\ Len(result) = i /\ j <= autocorrelationMoves_vmcLEPs
          /\ sweeps = movesForgetICs_vmcLEPs + i * autocorrelationMoves_vmcLEPs + j
    /\ pc = "sample" =>
          (Len(result) = i /\ sweeps = movesForgetICs_vmcLEPs + i * autocorrelationMoves_vmcLEPs)
    /\ pc = "done" =>
          /\ Len(result) = numEnergies
          /\ sweeps = movesForgetICs_vmcLEPs + numEnergies * autocorrelationMoves_vmcLEPs
    /\ upc # "idle" => pc \in {"burnin", "decorr"}
    /\ (pc = "sample" /\ Len(result) > 0) =>
          result[Len(result)].localEn = localEnergy(result[Len(result)].positions, useAnalytical)
    /\ pc = "done" =>
          \A k \in 1 .. Len(result) :
             result[k].localEn = localEnergy(result[k].positions, useAnalytical)

C24_Witness ==
    /\ pc = "done" /\ numEnergies = MaxEnergies /\ ~useImpSamp /\ ~useAnalytical
    /\ result[1].positions # result[MaxEnergies].positions
    /\ result[1].localEn # result[MaxEnergies].localEn

C26_ChainContinuity ==
    /\ [](pc \in {"sample", "done"} /\ Len(result) > 0 => poss = result[Len(result)].positions)
    /\ [][ /\ Len(result') = Len(result) + 1 =>
                (poss' = poss /\ result'[Len(result')].positions = poss)
           /\ (pc = "sample" /\ pc' = "decorr" /\ i > 0) =>
                (poss' = poss /\ poss = result[i].positions)
           /\ poss' # poss => (upc \in {"propose", "decide"} /\ pc \in {"burnin", "decorr"}) ]_vars

C26_Witness ==
    /\ pc = "decorr" /\ i = 1 /\ j = autocorrelationMoves_vmcLEPs /\ upc = "idle"
    /\ Len(result) = 1 /\ poss # result[1].positions /\ wavef(poss) > 0


\* C27: a descent that converged returned the sample mean of the samples of that
\* iteration's VMC run as its energy, the error of those same samples, and the
\* parameters that run was started at; the iteration was the descent's
\* (loop + 1)-th and made the descent's (loop + 1)-th run, so one run per iteration
C27_ConvergedResult ==
    \A d \in descents :
        LET w == d.walker
            leps == currentLEPs[w]
        IN /\ wpc[w] = "converged"
           /\ Len(leps) > 0
           /\ d.res.energy * Len(leps) = SumOf(leps, Len(leps))
           /\ d.res.stdDev = ErrorOnAvg(leps)
           /\ d.res.bestParams = ranAt[w]
           /\ ranAt[w] = currentParams[w]
           /\ runsOf[w] = loop[w] + 1

C27_Witness ==
    \E d, e \in descents :
        /\ d.walker # e.walker
        /\ currentLEPs[d.walker] # currentLEPs[e.walker]
        /\ d.res.stdDev > 0 /\ e.res.stdDev = 0
        /\ d.res.bestParams # e.res.bestParams
\* C28: every descent that was entered reaches CONVERGED or ABORTED (or the process
\* is ended by another descent's abort), never both, within maxLoops_gradDesc
\* iterations; from then on it starts no VMC run and updates no parameter; and
\* currentParams and oldMomentum change only at the entry of the descent and in an
\* iteration that does not converge
C28_DescentLifecycle ==
    /\ <>[](\A w \in Walkers :
               (opc = "walking" /\ wpc[w] \notin {"unborn", "born", "seeding"}) =>
                   wpc[w] \in {"converged", "abortedCap", "abortedNaN"})
    /\ [](opc \in {"walking", "done", "aborted"} =>
            \A w \in Walkers : /\ loop[w] < maxLoops_gradDesc
                               /\ runsOf[w] <= maxLoops_gradDesc
                               /\ wpc[w] \notin {"exhausted", "halving"})
    /\ [][ opc = "walking" =>
             \A w \in Walkers :
                /\ wpc[w] \in {"converged", "abortedCap", "abortedNaN"} =>
                       /\ wpc'[w] = wpc[w] /\ runsOf'[w] = runsOf[w]
                       /\ currentParams'[w] = currentParams[w]
                       /\ oldMomentum'[w] = oldMomentum[w] /\ loop'[w] = loop[w]
                /\ (currentParams'[w] # currentParams[w] \/ oldMomentum'[w] # oldMomentum[w]) =>
                       \/ wpc[w] = "seeding" /\ wpc'[w] = "iter"
                       \/ wpc[w] = "sampling" /\ wpc'[w] = "iter" /\ loop'[w] = loop[w] + 1 ]_vars

C28_Witness ==
    \E w, x \in Walkers :
        /\ wpc[w] = "converged" /\ loop[w] = 0 /\ runsOf[w] = 1
        /\ wpc[x] \in {"abortedCap", "abortedNaN"} /\ loop[x] = maxLoops_gradDesc - 1 /\ currentParams[x] # ranAt[x]
\* C29: every block size BlockingAnalysis tests on M > 1 energies lies in 1 .. M / 2,
\* and it makes at least two block means, so that numOfBlocks - 1 is a divisor of at
\* least 1; AvgAndVar_, BlockingAnalysis and BootstrapAnalysis go no further than
\* their first assertion on fewer than two energies, and the divisor size * (size - 1)
\* of AvgAndVar_ is never 0
C29_AtLeastTwoBlocks ==
    /\ spc \in {"blocking", "blockingDone"} =>
          /\ Len(energies) > 1
          /\ \A k \in 1 .. Len(blockingResult.sizes) :
                LET b == blockingResult.sizes[k]
                IN /\ 1 <= b /\ b <= Len(energies) \div 2
                   /\ Len(blockRanges[k]) >= 2
                   /\ Len(blockRanges[k]) = NumOfBlocks(Len(energies), b)
                   /\ NumOfBlocks(Len(energies), b) - 1 >= 1
    /\ Len(energies) < 2 =>
          /\ spc \in {"blockingCall", "bootstrapCall", "avgAndVarCall", "aborted", "unused"}
          /\ blockingResult = "none" /\ bootstrapResult = "none" /\ avgAndVar = "none"
    /\ spc = "avgAndVarDone" => (Len(energies) > 1 /\ avgAndVar.divisor >= 2)

C29_Witness ==
    /\ spc = "blockingDone" /\ Len(blockingResult.sizes) >= 3
    /\ \E k \in 1 .. Len(blockingResult.sizes) :
          /\ blockingResult.sizes[k] = Len(energies) \div 2
          /\ Len(blockRanges[k]) = 2
          /\ NumOfBlocks(Len(energies), blockingResult.sizes[k]) - 1 = 1
\* C30: the halving loop of a parameter ends, with the proposal inside the bound, for
\* every parameter value inside its bound and every momentum: for every bound, value
\* and momentum up to MaxMomentum, among them a value on the bound with the momentum
\* pointing out and a bound of length zero; and for every momentum the iteration in
\* progress can compute; no descent stays in the loop
C30_HalvingEnds ==
    /\ (opc = "construct" /\ parBounds = << >>) =>
          \A b \in ParamBoundChoices : \A cp \in b.lower .. b.upper :
             \A mom \in (-MaxMomentum) .. MaxMomentum :
                /\ Halvings(cp, mom, b, 0) <= MaxHalvings
                /\ ~LeavesBound(cp + Scaled(mom, Halvings(cp, mom, b, 0)), b)
    /\ \A w \in DOMAIN wpc :
          /\ wpc[w] # "halving"
          /\ wpc[w] = "sampling" =>
                \A g \in [Params -> Gradients] :
                   StepEnds(currentParams[w], Momentum(g, oldMomentum[w]), parBounds)

C30_Witness ==
    \E w \in DOMAIN wpc :
        /\ wpc[w] = "iter" /\ loop[w] > 0
        /\ \E v \in Params :
              /\ parBounds[v].lower = parBounds[v].upper
              /\ currentParams[w][v] = parBounds[v].upper
              /\ oldMomentum[w][v] > 0
              /\ Halvings(currentParams[w][v], oldMomentum[w][v], parBounds[v], 0) > 0
              /\ Scaled(oldMomentum[w][v],
                        Halvings(currentParams[w][v], oldMomentum[w][v], parBounds[v], 0)) = 0
====
